---- MODULE Spec2Model ----
(***************************************************************************)
(* Model of the two laboratory pipelines of 2023-hello-llm:                *)
(*   lab_7_llm/main.py  neural machine translation (seq2seq generation)    *)
(*   lab_8_llm/main.py  toxicity classification                            *)
(* Python objects are records tagged by "kind"; a call that raises is the  *)
(* outcome Raise(<exception name>).                                        *)
(***************************************************************************)
EXTENDS Integers, Sequences, FiniteSets, TLC

VARIABLES
    variant,      \* which module's classes are in use: "lab_7" or "lab_8"
    raw_data,     \* RawDataImporter._raw_data / RawDataPreprocessor._raw_data
    data,         \* RawDataPreprocessor._data, wrapped by TaskDataset._data
    model,        \* LLMPipeline._model: "loaded" or "absent" (None)
    batch_size,   \* LLMPipeline._batch_size
    max_length,   \* LLMPipeline._max_length
    pc,           \* position inside infer_dataset: "idle", "loop", "returned"
    pos,          \* number of samples the DataLoader has yielded so far
    batches,      \* the batches the DataLoader has yielded, in order
    predictions,  \* the local list `predictions` of infer_dataset
    call          \* the most recent call: operation, argument and outcome

vars == <<variant, raw_data, data, model, batch_size, max_length,
          pc, pos, batches, predictions, call>>

(***************************************************************************)
(* Bounds of the model.                                                    *)
(***************************************************************************)
MaxRows == 3
MaxBatchSize == 3
MaxLength == 2
TokenizerModelMaxLength == 3
MaxDirectBatch == 2

(***************************************************************************)
(* Python values.                                                          *)
(***************************************************************************)
NULL == "<NA>"

PyNone == [kind |-> "None"]

NoCall == [op |-> "none", arg |-> [kind |-> "None"], out |-> [kind |-> "None"]]

Raise(exc) == [kind |-> "raise", exc |-> exc]

PyStr(s) == [kind |-> "str", value |-> s]

PyList(xs) == [kind |-> "list", items |-> xs]

EmptyDict == [kind |-> "dict", size |-> 0]

PyDict(d, n) == [kind |-> "dict", size |-> n, items |-> d]

NonTabular == [kind |-> "iterator"]

DataFrame(cols, idx, rws) ==
    [kind |-> "DataFrame", columns |-> cols, index |-> idx, rows |-> rws]

IsDataFrame(x) == x.kind = "DataFrame"

RangeIndex(n) == [i \in 1..n |-> i - 1]

Min(S) == CHOOSE x \in S : \A y \in S : x <= y

Max(S) == CHOOSE x \in S : \A y \in S : x >= y

SeqRange(s) == {s[i] : i \in 1..Len(s)}

(***************************************************************************)
(* Column names: ColumnNames.SOURCE/TARGET/PREDICTION and the raw fields.  *)
(***************************************************************************)
SOURCE == "source"

TARGET == "target"

PREDICTION == "predictions"

NotToxicMarker == "{\"not_toxic\":true}"

ToxicMarker == "{\"toxic_content\":true}"

OtherMarker == "{\"other\":true}"

TextColumn(v) == IF v = "lab_7" THEN "ru" ELSE "toxic_comment"

(***************************************************************************)
(* pandas operations used by the preprocessors.                            *)
(***************************************************************************)
RECURSIVE KeptPositions(_, _)
KeptPositions(keep, n) ==
    IF n = 0 THEN <<>>
    ELSE LET rest == KeptPositions(keep, n - 1)
         IN  IF keep[n] THEN Append(rest, n) ELSE rest

\* boolean-mask selection df[mask]: the kept rows with their index labels
Take(t, keep) ==
    LET ps == KeptPositions(keep, Len(t.rows))
    IN  DataFrame(t.columns,
                  [k \in 1..Len(ps) |-> t.index[ps[k]]],
                  [k \in 1..Len(ps) |-> t.rows[ps[k]]])

HasNull(t, i) == \E c \in t.columns : t.rows[i][c] = NULL

DropNa(t) == Take(t, [i \in 1..Len(t.rows) |-> ~HasNull(t, i)])

Duplicated(t) == [i \in 1..Len(t.rows) |-> \E j \in 1..(i - 1) : t.rows[j] = t.rows[i]]

DropDuplicates(t) == Take(t, [i \in 1..Len(t.rows) |-> ~Duplicated(t)[i]])

RenamedTo(m, c) == IF c \in DOMAIN m THEN m[c] ELSE c

Rename(t, m) ==
    LET newcols == {RenamedTo(m, c) : c \in t.columns}
        old(n)  == CHOOSE c \in t.columns : RenamedTo(m, c) = n
    IN  DataFrame(newcols, t.index,
                  [i \in 1..Len(t.rows) |-> [n \in newcols |-> t.rows[i][old(n)]]])

DropColumns(t, cols) ==
    DataFrame(t.columns \ cols, t.index,
              [i \in 1..Len(t.rows) |-> [c \in t.columns \ cols |-> t.rows[i][c]]])

ReplaceIn(t, col, m) ==
    [t EXCEPT !.rows = [i \in 1..Len(t.rows) |->
        [t.rows[i] EXCEPT ![col] = IF @ \in DOMAIN m THEN m[@] ELSE @]]]

IsIn(t, col, vals) == [i \in 1..Len(t.rows) |-> t.rows[i][col] \in vals]

ResetIndex(t) == [t EXCEPT !.index = RangeIndex(Len(t.rows))]

Column(t, col) == [index |-> t.index, values |-> [i \in 1..Len(t.rows) |-> t.rows[i][col]]]

(***************************************************************************)
(* RawDataImporter.obtain                                                  *)
(***************************************************************************)
RuTexts == {"a", "b a"}

RawRows(v) ==
    IF v = "lab_7"
    THEN [ru : RuTexts \cup {NULL}, en : {"x", NULL},
          ru_annotated : {"ann"}, styles : {"st"}]
    ELSE [toxic_comment : RuTexts \cup {NULL},
          reasons : {NotToxicMarker, ToxicMarker, OtherMarker, "0", "1", NULL}]

RawColumns(v) ==
    IF v = "lab_7" THEN {"ru", "en", "ru_annotated", "styles"}
    ELSE {"toxic_comment", "reasons"}

RawTables(v) ==
    {DataFrame(RawColumns(v), RangeIndex(Len(rws)), rws) :
        rws \in UNION {[1..n -> RawRows(v)] : n \in 0..MaxRows}}

\* what load_dataset(name, split).to_pandas() hands back
Fetched(v) == RawTables(v) \cup {NonTabular}

ObtainOutcome(fetched) == PyNone

\* a run imports once: the importer starts with no raw table
Obtain ==
    /\ pc = "idle"
    /\ raw_data = PyNone
    /\ \E fetched \in Fetched(variant) :
          /\ raw_data' = fetched
          /\ call' = [op |-> "obtain", arg |-> fetched, out |-> ObtainOutcome(fetched)]
    /\ UNCHANGED <<variant, data, model, batch_size, max_length,
                   pc, pos, batches, predictions>>

(***************************************************************************)
(* RawDataPreprocessor.analyze                                             *)
(***************************************************************************)
SampleLengths(t, col) == {Len(t.rows[i][col]) : i \in 1..Len(t.rows)}

AnalyzeOutcome(v, raw) ==
    IF ~IsDataFrame(raw) THEN Raise("AttributeError")
    ELSE
    LET rows == Len(raw.rows)
        cols == Cardinality(raw.columns)
        data_droped_empty == DropNa(raw)
        lens == SampleLengths(data_droped_empty, TextColumn(v))
    IN  IF TextColumn(v) \notin raw.columns THEN Raise("KeyError")
        ELSE IF lens = {} THEN Raise("ValueError")
        ELSE PyDict([dataset_number_of_samples |-> rows,
                     dataset_columns |-> cols,
                     dataset_duplicates |->
                        Cardinality({i \in 1..rows : Duplicated(raw)[i]}),
                     dataset_empty_rows |-> rows - Len(data_droped_empty.rows),
                     dataset_sample_min_len |-> Min(lens),
                     dataset_sample_max_len |-> Max(lens)], 6)

Analyze ==
    /\ pc = "idle"
    /\ raw_data # PyNone
    /\ call' = [op |-> "analyze", arg |-> raw_data, out |-> AnalyzeOutcome(variant, raw_data)]
    /\ UNCHANGED <<variant, raw_data, data, model, batch_size, max_length,
                   pc, pos, batches, predictions>>

(***************************************************************************)
(* RawDataPreprocessor.transform                                           *)
(***************************************************************************)
\* variant: rows holding a null are dropped and the index is left as it was
Transform7DropNa(raw) ==
    IF ~IsDataFrame(raw) THEN [data |-> PyNone, out |-> Raise("AttributeError")]
    ELSE IF ~({"ru_annotated", "styles"} \subseteq raw.columns)
    THEN [data |-> PyNone, out |-> Raise("KeyError")]
    ELSE [data |-> Rename(DropNa(DropColumns(raw, {"ru_annotated", "styles"})),
                          [c \in {"ru", "en"} |-> IF c = "ru" THEN SOURCE ELSE TARGET]),
          out |-> PyNone]

Transform7(raw) ==
    IF ~IsDataFrame(raw) THEN [data |-> PyNone, out |-> Raise("AttributeError")]
    ELSE IF ~({"ru_annotated", "styles"} \subseteq raw.columns)
    THEN [data |-> PyNone, out |-> Raise("KeyError")]
    ELSE [data |-> Rename(DropColumns(raw, {"ru_annotated", "styles"}),
                          [c \in {"ru", "en"} |-> IF c = "ru" THEN SOURCE ELSE TARGET]),
          out |-> PyNone]

LabelMap == [l \in {NotToxicMarker, ToxicMarker} |-> IF l = NotToxicMarker THEN "0" ELSE "1"]

\* variant: the filtered rows keep their index labels (no reset_index)
Transform8NoReset(raw) ==
    IF ~IsDataFrame(raw) THEN [data |-> PyNone, out |-> Raise("AttributeError")]
    ELSE
    LET renamed == Rename(DropDuplicates(raw),
                          [c \in {"toxic_comment", "reasons"} |->
                              IF c = "toxic_comment" THEN SOURCE ELSE TARGET])
    IN  IF TARGET \notin renamed.columns
        THEN [data |-> renamed, out |-> Raise("KeyError")]
        ELSE LET mapped == ReplaceIn(renamed, TARGET, LabelMap)
             IN  [data |-> Take(mapped, IsIn(mapped, TARGET, {"0", "1"})),
                  out |-> PyNone]

\* reset_index() without drop=True: the old index becomes a column "index",
\* and a table that already has that column is refused
ResetIndexKeep(t) ==
    DataFrame(t.columns \cup {"index"}, RangeIndex(Len(t.rows)),
              [i \in 1..Len(t.rows) |->
                 [c \in t.columns \cup {"index"} |->
                    IF c = "index" THEN ToString(t.index[i]) ELSE t.rows[i][c]]])

\* variant: reset_index() called without drop=True
Transform8KeepIndex(raw) ==
    IF ~IsDataFrame(raw) THEN [data |-> PyNone, out |-> Raise("AttributeError")]
    ELSE
    LET renamed == Rename(DropDuplicates(raw),
                          [c \in {"toxic_comment", "reasons"} |->
                              IF c = "toxic_comment" THEN SOURCE ELSE TARGET])
    IN  IF TARGET \notin renamed.columns
        THEN [data |-> renamed, out |-> Raise("KeyError")]
        ELSE LET mapped == ReplaceIn(renamed, TARGET, LabelMap)
                 kept == Take(mapped, IsIn(mapped, TARGET, {"0", "1"}))
             IN  IF "index" \in kept.columns
                 THEN [data |-> mapped, out |-> Raise("ValueError")]
                 ELSE [data |-> ResetIndexKeep(kept), out |-> PyNone]

Transform8(raw) ==
    IF ~IsDataFrame(raw) THEN [data |-> PyNone, out |-> Raise("AttributeError")]
    ELSE
    LET renamed == Rename(DropDuplicates(raw),
                          [c \in {"toxic_comment", "reasons"} |->
                              IF c = "toxic_comment" THEN SOURCE ELSE TARGET])
    IN  IF TARGET \notin renamed.columns
        THEN [data |-> renamed, out |-> Raise("KeyError")]
        ELSE LET mapped == ReplaceIn(renamed, TARGET, LabelMap)
             IN  [data |-> ResetIndex(Take(mapped, IsIn(mapped, TARGET, {"0", "1"}))),
                  out |-> PyNone]

TransformOf(v, raw) == IF v = "lab_7" THEN Transform7(raw) ELSE Transform8(raw)

\* a transform that raises before its first assignment leaves _data as it was
Transform ==
    /\ pc = "idle"
    /\ raw_data # PyNone
    /\ data = PyNone
    /\ LET r == TransformOf(variant, raw_data)
       IN  /\ data' = r.data
           /\ call' = [op |-> "transform", arg |-> raw_data, out |-> r.out]
    /\ UNCHANGED <<variant, raw_data, model, batch_size, max_length,
                   pc, pos, batches, predictions>>

\* a new RawDataPreprocessor constructed over the clean table of the previous one
Reprocess ==
    /\ pc = "idle"
    /\ IsDataFrame(data)
    /\ raw_data # data
    /\ raw_data' = data
    /\ data' = PyNone
    /\ call' = [op |-> "RawDataPreprocessor", arg |-> data, out |-> PyNone]
    /\ UNCHANGED <<variant, model, batch_size, max_length,
                   pc, pos, batches, predictions>>

(***************************************************************************)
(* Tokenizer and model runtime (transformers), as the pipelines call them. *)
(***************************************************************************)
PAD == 0

EOS == 9

IsSpecial(id) == id \in {PAD, EOS}

\* sub-word encoding: one id per word of the text
EncodeText(s) == IF s = "a" THEN <<1>> ELSE IF s = "b a" THEN <<2, 1>> ELSE <<>>

\* truncation=True: at most limit ids, the closing special token included
Truncate(ids, limit) == Append(SubSeq(ids, 1, Min({Len(ids), limit - 1})), EOS)

PadTo(ids, n) == ids \o [i \in 1..(n - Len(ids)) |-> PAD]

Longest(rws) == IF Len(rws) = 0 THEN 0 ELSE Max({Len(rws[i]) : i \in 1..Len(rws)})

\* tokenizer(texts, padding=True, truncation=True, max_length=limit).input_ids
Tokenize(texts, limit) ==
    LET enc == [j \in 1..Len(texts) |-> Truncate(EncodeText(texts[j]), limit)]
    IN  [j \in 1..Len(texts) |-> PadTo(enc[j], Longest(enc))]

SkipSpecial(ids) == SelectSeq(ids, LAMBDA id : ~IsSpecial(id))

TranslateId(id) == id + 10

\* model.generate(input_ids): one output row per input row, padded to the longest
Generate(input_ids) ==
    LET gen == [j \in 1..Len(input_ids) |->
                  <<PAD>> \o [i \in 1..Len(SkipSpecial(input_ids[j])) |->
                                TranslateId(SkipSpecial(input_ids[j])[i])] \o <<EOS>>]
    IN  [j \in 1..Len(gen) |-> PadTo(gen[j], Longest(gen))]

DecodeId(id) == IF id = 11 THEN "x" ELSE IF id = 12 THEN "y" ELSE "?"

RECURSIVE JoinWords(_)
JoinWords(ids) ==
    IF Len(ids) = 0 THEN ""
    ELSE IF Len(ids) = 1 THEN DecodeId(ids[1])
    ELSE DecodeId(ids[1]) \o " " \o JoinWords(Tail(ids))

\* tokenizer.batch_decode(outputs, skip_special_tokens=True)
BatchDecode(outputs) == [j \in 1..Len(outputs) |-> JoinWords(SkipSpecial(outputs[j]))]

\* BertForSequenceClassification(**tokens).logits: one score per class
Logits(ids) ==
    <<Cardinality({i \in 1..Len(ids) : ids[i] = 1}),
      Cardinality({i \in 1..Len(ids) : ids[i] = 2})>>

\* torch.argmax(logits).item(): the first position holding the maximum
ArgMax(scores) == Min({i \in 1..Len(scores) : scores[i] = Max(SeqRange(scores))}) - 1

(***************************************************************************)
(* TaskDataset                                                             *)
(***************************************************************************)
DatasetLen(d) == Len(d.rows)

\* __getitem__(index): the 1-tuple of the source text at position index
GetItem(d, index) == <<d.rows[index + 1][SOURCE]>>

(***************************************************************************)
(* LLMPipeline._infer_batch                                                *)
(*                                                                         *)
(* _infer_batch, infer_sample and analyze_model change no field of the     *)
(* pipeline: only `call` records them.  Each is therefore taken from the   *)
(* state after construction (call = NoCall); taking it after another such  *)
(* call would lead to the very same state.                                 *)
(***************************************************************************)
RECURSIVE Squeeze(_)
Squeeze(sample_batch) ==
    IF Len(sample_batch) = 0 THEN <<>>
    ELSE Head(sample_batch) \o Squeeze(Tail(sample_batch))

InferBatch7(m, sample_batch) ==
    LET inputs == Tokenize(Squeeze(sample_batch), TokenizerModelMaxLength)
    IN  IF m = "absent" THEN Raise("AttributeError")
        ELSE PyList(BatchDecode(Generate(inputs)))

InferBatch8(m, sample_batch) == PyNone

InferBatchOf(v, m, sample_batch) ==
    IF v = "lab_7" THEN InferBatch7(m, sample_batch) ELSE InferBatch8(m, sample_batch)

Samples == {<<s>> : s \in RuTexts}

InferBatch ==
    /\ pc = "idle"
    /\ call = NoCall
    /\ \E k \in 0..MaxDirectBatch : \E sample_batch \in [1..k -> Samples] :
          call' = [op |-> "_infer_batch", arg |-> PyList(sample_batch),
                   out |-> InferBatchOf(variant, model, sample_batch)]
    /\ UNCHANGED <<variant, raw_data, data, model, batch_size, max_length,
                   pc, pos, batches, predictions>>

(***************************************************************************)
(* LLMPipeline.infer_sample                                                *)
(***************************************************************************)
InferSample7(m, sample) ==
    IF m = "absent" THEN PyNone
    ELSE LET r == InferBatch7(m, <<sample>>)
         IN  IF r.kind = "list" THEN PyStr(r.items[1]) ELSE r

InferSample8(m, limit, sample) ==
    LET tokens == Tokenize(sample, limit)
    IN  IF m = "absent" THEN Raise("TypeError")
        ELSE PyStr(ToString(ArgMax(Logits(Squeeze(tokens)))))

InferSampleOf(v, m, limit, sample) ==
    IF v = "lab_7" THEN InferSample7(m, sample) ELSE InferSample8(m, limit, sample)

InferSample ==
    /\ pc = "idle"
    /\ call = NoCall
    /\ \E sample \in Samples :
          call' = [op |-> "infer_sample", arg |-> PyList(sample),
                   out |-> InferSampleOf(variant, model, max_length, sample)]
    /\ UNCHANGED <<variant, raw_data, data, model, batch_size, max_length,
                   pc, pos, batches, predictions>>

(***************************************************************************)
(* LLMPipeline.analyze_model                                               *)
(***************************************************************************)
ModelProperties(v) ==
    [input_shape |-> IF v = "lab_7" THEN "[1, max_length]" ELSE "input_size",
     embedding_size |-> "max_position_embeddings",
     output_shape |-> "output_size",
     num_trainable_params |-> "trainable_params",
     vocab_size |-> "vocab_size",
     size |-> "total_param_bytes",
     max_context_length |-> "max_length"]

\* the first statement reads self._model.config; the absence check comes after it
AnalyzeModelOutcome(v, m) ==
    IF m = "absent" THEN Raise("AttributeError")
    ELSE IF m # "loaded" THEN EmptyDict
    ELSE PyDict(ModelProperties(v), Cardinality(DOMAIN ModelProperties(v)))

AnalyzeModel ==
    /\ pc = "idle"
    /\ call = NoCall
    /\ call' = [op |-> "analyze_model", arg |-> PyNone,
                out |-> AnalyzeModelOutcome(variant, model)]
    /\ UNCHANGED <<variant, raw_data, data, model, batch_size, max_length,
                   pc, pos, batches, predictions>>

(***************************************************************************)
(* LLMPipeline.infer_dataset                                               *)
(***************************************************************************)
\* variant: the sampler hands out each batch's indices last to first
BatchIndicesReversed(n, size, done) ==
    [j \in 1..Min({size, n - done}) |-> done + Min({size, n - done}) - j]

\* DataLoader(dataset, batch_size): sequential sampler, last batch kept
BatchIndices(n, size, done) == [j \in 1..Min({size, n - done}) |-> done + j - 1]

\* default collate of 1-tuples of strings: one tuple holding the batch's texts
Collate(items) ==
    IF Len(items) = 0 THEN <<>>
    ELSE << [j \in 1..Len(items) |-> items[j][1]] >>

NextBatch(d, size, done) ==
    LET idx == BatchIndices(DatasetLen(d), size, done)
    IN  Collate([j \in 1..Len(idx) |-> GetItem(d, idx[j])])

PySeries(values) == [index |-> RangeIndex(Len(values)), values |-> values]

RECURSIVE SortedSeq(_)
SortedSeq(S) == IF S = {} THEN <<>> ELSE <<Min(S)>> \o SortedSeq(S \ {Min(S)})

ValueAt(series, label) ==
    IF label \in SeqRange(series.index)
    THEN series.values[CHOOSE i \in 1..Len(series.index) : series.index[i] = label]
    ELSE NULL

\* pd.DataFrame({TARGET: target, PREDICTION: prediction}): rows are the union of
\* the two indexes, a value missing under a label is null
PredictionFrame(target, prediction) ==
    LET idx == IF target.index = prediction.index THEN target.index
               ELSE SortedSeq(SeqRange(target.index) \cup SeqRange(prediction.index))
    IN  DataFrame({TARGET, PREDICTION}, idx,
                  [i \in 1..Len(idx) |->
                     [c \in {TARGET, PREDICTION} |->
                        IF c = TARGET THEN ValueAt(target, idx[i])
                        ELSE ValueAt(prediction, idx[i])]])

InferDatasetBegin ==
    /\ pc = "idle"
    /\ variant = "lab_7"
    /\ IsDataFrame(data)
    /\ pc' = "loop"
    /\ pos' = 0
    /\ batches' = <<>>
    /\ predictions' = <<>>
    /\ call' = [op |-> "infer_dataset", arg |-> PyNone, out |-> PyNone]
    /\ UNCHANGED <<variant, raw_data, data, model, batch_size, max_length>>

InferDatasetBatch ==
    /\ pc = "loop"
    /\ pos < DatasetLen(data)
    /\ LET batch_data == NextBatch(data, batch_size, pos)
           out == InferBatch7(model, batch_data)
       IN  IF out.kind = "raise"
           THEN /\ pc' = "idle"
                /\ call' = [call EXCEPT !.out = out]
                /\ batches' = Append(batches, batch_data)
                /\ UNCHANGED <<pos, predictions>>
           ELSE /\ predictions' = predictions \o out.items
                /\ pos' = pos + Len(Squeeze(batch_data))
                /\ batches' = Append(batches, batch_data)
                /\ UNCHANGED <<pc, call>>
    /\ UNCHANGED <<variant, raw_data, data, model, batch_size, max_length>>

InferDatasetReturn ==
    /\ pc = "loop"
    /\ pos >= DatasetLen(data)
    /\ pc' = "returned"
    /\ call' = [call EXCEPT !.out =
                    PredictionFrame(Column(data, TARGET), PySeries(predictions))]
    /\ UNCHANGED <<variant, raw_data, data, model, batch_size, max_length,
                   pos, batches, predictions>>

\* lab_8: the method body is its docstring only
InferDataset8 ==
    /\ pc = "idle"
    /\ variant = "lab_8"
    /\ call' = [op |-> "infer_dataset", arg |-> PyNone, out |-> PyNone]
    /\ UNCHANGED <<variant, raw_data, data, model, batch_size, max_length,
                   pc, pos, batches, predictions>>

(***************************************************************************)
(* Import and preprocessing.                                               *)
(***************************************************************************)
InitData ==
    /\ variant \in {"lab_7", "lab_8"}
    /\ raw_data = PyNone
    /\ data = PyNone
    /\ model = "loaded"
    /\ batch_size = 1
    /\ max_length = 1
    /\ pc = "idle"
    /\ pos = 0
    /\ batches = <<>>
    /\ predictions = <<>>
    /\ call = NoCall

NextData == Obtain \/ Analyze \/ Transform \/ Reprocess

SpecData == InitData /\ [][NextData]_vars

(***************************************************************************)
(* Inference: a pipeline constructed over a clean table.                   *)
(***************************************************************************)
InferRawTables(v) ==
    {t \in RawTables(v) : \A i \in 1..Len(t.rows) : t.rows[i][TextColumn(v)] # NULL}

CleanTables(v) == {TransformOf(v, raw).data : raw \in InferRawTables(v)}

InitInfer ==
    /\ variant \in {"lab_7", "lab_8"}
    /\ raw_data = PyNone
    /\ data \in CleanTables(variant)
    /\ model \in {"loaded", "absent"}
    /\ batch_size \in 1..MaxBatchSize
    /\ max_length \in 1..MaxLength
    /\ pc = "idle"
    /\ pos = 0
    /\ batches = <<>>
    /\ predictions = <<>>
    /\ call = NoCall

NextInfer ==
    \/ AnalyzeModel
    \/ InferSample
    \/ InferBatch
    \/ InferDatasetBegin
    \/ InferDatasetBatch
    \/ InferDatasetReturn
    \/ InferDataset8

SpecInfer == InitInfer /\ [][NextInfer]_vars

(***************************************************************************)
(* Properties.                                                             *)
(***************************************************************************)
InferDatasetDone == variant = "lab_7" /\ call.op = "infer_dataset" /\ pc = "returned"

SourceAt(i) == data.rows[i][SOURCE]

WholePass(n) == InferBatch7(model, << [i \in 1..n |-> SourceAt(i)] >>).items

\* C2: infer_dataset() draws consecutive batches of batch_size samples, only
\* the last one possibly smaller, and the predictions accumulated so far equal
\* the predictions of one pass over the same samples as a single batch, the
\* prediction at position i being the model's output for sample i.
C2_BatchSegmentation ==
    (variant = "lab_7" /\ model = "loaded" /\ pc \in {"loop", "returned"}) =>
        LET n == Len(data.rows)
            texts(b) == Squeeze(batches[b])
        IN  /\ \A b \in 1..Len(batches) :
                  /\ Len(batches[b]) = 1
                  /\ Len(texts(b)) >= 1
                  /\ Len(texts(b)) <= batch_size
                  /\ b < Len(batches) => Len(texts(b)) = batch_size
                  /\ \A j \in 1..Len(texts(b)) :
                        texts(b)[j] = SourceAt((b - 1) * batch_size + j)
            /\ pc = "returned" => pos = n
            /\ pos <= n
            /\ Len(batches) * batch_size >= pos
            /\ (Len(batches) - 1) * batch_size < pos \/ pos = 0
            /\ Len(predictions) = pos
            /\ predictions = WholePass(pos)
            /\ \A i \in 1..pos :
                  predictions[i] = InferBatch7(model, << <<SourceAt(i)>> >>).items[1]

C2_Witness ==
    /\ InferDatasetDone
    /\ model = "loaded"
    /\ Len(data.rows) = 3
    /\ batch_size = 2
    /\ Len(batches) = 2
    /\ SourceAt(1) = "b a"
    /\ SourceAt(2) = "a"
    /\ predictions = <<"y x", "x", "y x">>

\* C3: infer_sample on a pipeline whose model is absent returns None and does
\* not raise, in both variants.
C3_InferSampleAbsentModel ==
    (call.op = "infer_sample" /\ model = "absent") => call.out.kind = "None"

\* C4: analyze_model on a pipeline whose model is absent returns an empty dict
\* and does not raise, in both variants.
C4_AnalyzeModelAbsentModel ==
    (call.op = "analyze_model" /\ model = "absent") =>
        (call.out.kind = "dict" /\ call.out.size = 0)

AfterTransform8 ==
    /\ variant = "lab_8"
    /\ call.op = "transform"
    /\ IsDataFrame(raw_data)
    /\ raw_data.columns = RawColumns("lab_8")

FirstOccurrence(t, i) == \A j \in 1..(i - 1) : t.rows[j] # t.rows[i]

KeptRows(t, labels) ==
    {i \in 1..Len(t.rows) : t.rows[i]["reasons"] \in labels /\ FirstOccurrence(t, i)}

NthOf(P, n) == CHOOSE i \in P : Cardinality({j \in P : j < i}) = n - 1

MappedLabel(l) ==
    IF l = NotToxicMarker THEN "0" ELSE IF l = ToxicMarker THEN "1" ELSE l

CleanIs(raw, clean, labels) ==
    LET P == KeptRows(raw, labels)
    IN  /\ IsDataFrame(clean)
        /\ clean.columns = {SOURCE, TARGET}
        /\ Len(clean.rows) = Cardinality(P)
        /\ Len(clean.index) = Cardinality(P)
        /\ \A n \in 1..Cardinality(P) :
              /\ clean.index[n] = n - 1
              /\ clean.rows[n][SOURCE] = raw.rows[NthOf(P, n)]["toxic_comment"]
              /\ clean.rows[n][TARGET] = MappedLabel(raw.rows[NthOf(P, n)]["reasons"])
              /\ clean.rows[n][TARGET] \in {"0", "1"}

\* C5 as stated: the clean table is exactly the first occurrences of the raw
\* rows labelled with the not-toxic or the toxic marker, in order, mapped to
\* "0"/"1" and indexed 0..k-1; every row with any other label is discarded.
C5_OnlyMarkerRowsKept ==
    AfterTransform8 => CleanIs(raw_data, data, {NotToxicMarker, ToxicMarker})

\* C5 amended: the clean table is exactly the first occurrences of the raw
\* rows labelled with a marker or already with the literal "0" or "1", in
\* order, markers mapped to "0"/"1", indexed 0..k-1.
C5_MarkerOrLiteralRowsKept ==
    AfterTransform8 =>
        CleanIs(raw_data, data, {NotToxicMarker, ToxicMarker, "0", "1"})

C5_Witness ==
    /\ AfterTransform8
    /\ Len(raw_data.rows) = 3
    /\ raw_data.rows[1]["reasons"] = OtherMarker
    /\ raw_data.rows[2]["reasons"] = "1"
    /\ raw_data.rows[3]["reasons"] = NotToxicMarker
    /\ Len(data.rows) = 2
    /\ data.rows[1][TARGET] = "1"
    /\ data.rows[2][TARGET] = "0"
    /\ data.index = <<0, 1>>

\* transform() has run on a preprocessor built over a table transform() produced
Retransformed ==
    /\ variant = "lab_8"
    /\ call.op = "transform"
    /\ IsDataFrame(raw_data)
    /\ SOURCE \in raw_data.columns

NoEqualRows(t) == \A i, j \in 1..Len(t.rows) : i < j => t.rows[i] # t.rows[j]

\* C6 as stated: transform() applied to a table equal to its own output
\* yields that table again, for every raw table.
C6_Idempotent == Retransformed => (call.out.kind = "None" /\ data = raw_data)

\* C6 amended: transform() applied to a table equal to its own output yields
\* that table again whenever the output holds no two equal rows; otherwise the
\* second pass keeps one row of each group of equal rows.
C6_IdempotentOnDistinctRows ==
    Retransformed =>
        /\ call.out.kind = "None"
        /\ IsDataFrame(data)
        /\ NoEqualRows(raw_data) => data = raw_data
        /\ Len(data.rows) = Cardinality(SeqRange(raw_data.rows))

C6_Witness ==
    /\ Retransformed
    /\ NoEqualRows(raw_data)
    /\ Len(raw_data.rows) = 3
    /\ data = raw_data

AfterAnalyze ==
    /\ call.op = "analyze"
    /\ IsDataFrame(raw_data)
    /\ raw_data.columns = RawColumns(variant)

\* C7: on every raw table with at least one row analyze() returns a result
\* with dataset_empty_rows = rows - rows without a null, min length <= max
\* length and dataset_duplicates >= 0; it does not fail.
C7_AnalyzeNonEmptyTable ==
    (AfterAnalyze /\ Len(raw_data.rows) >= 1) =>
        /\ call.out.kind = "dict"
        /\ call.out.items.dataset_empty_rows =
              Len(raw_data.rows)
                - Cardinality({i \in 1..Len(raw_data.rows) : ~HasNull(raw_data, i)})
        /\ call.out.items.dataset_sample_min_len <= call.out.items.dataset_sample_max_len
        /\ call.out.items.dataset_duplicates >= 0

\* C8: on a raw table with zero rows analyze() returns a result with zero
\* counts rather than failing.
C8_AnalyzeEmptyTable ==
    (AfterAnalyze /\ Len(raw_data.rows) = 0) =>
        /\ call.out.kind = "dict"
        /\ call.out.items.dataset_number_of_samples = 0
        /\ call.out.items.dataset_duplicates = 0
        /\ call.out.items.dataset_empty_rows = 0

\* C9: obtain() raises TypeError when the fetched object is not a DataFrame
\* and then stores no such object; a DataFrame is stored and None returned.
C9_ObtainRejectsNonTabular ==
    call.op = "obtain" =>
        IF IsDataFrame(call.arg)
        THEN call.out.kind = "None" /\ raw_data = call.arg
        ELSE /\ call.out.kind = "raise"
             /\ call.out.exc = "TypeError"
             /\ raw_data.kind \in {"None", "DataFrame"}

ExpectedPrediction(v, limit, text) ==
    IF v = "lab_7"
    THEN JoinWords(SkipSpecial(Generate(Tokenize(<<text>>, limit))[1]))
    ELSE ToString(ArgMax(Logits(Tokenize(<<text>>, limit)[1])))

\* C10: _infer_batch on k one-field samples returns a list of k strings, the
\* j-th being the model's output for the j-th text truncated to the
\* pipeline's configured maximum length, in both variants.
C10_InferBatchPredictions ==
    (call.op = "_infer_batch" /\ model = "loaded") =>
        /\ call.out.kind = "list"
        /\ Len(call.out.items) = Len(call.arg.items)
        /\ \A j \in 1..Len(call.arg.items) :
              call.out.items[j] =
                 ExpectedPrediction(variant, max_length, call.arg.items[j][1])


====
